---- MODULE Spec2Model ----
(***************************************************************************)
(* Model of src/probability/tournament.py: the recursive generator of     *)
(* tournament brackets (generate_brackets / choose_matchup) and the       *)
(* brute-force odds query (brute_force) that iterates over it.            *)
(*                                                                         *)
(* The generator is modelled as the stack of its suspended frames; one    *)
(* action is one step of the running generator or of the loop of          *)
(* brute_force that consumes it.                                           *)
(***************************************************************************)
EXTENDS Integers, Sequences, FiniteSets, TLC

VARIABLES teams, events, rules, use_any, pc, stack, bracket, brackets,
          total, satisfies, result, examined

vars == <<teams, events, rules, use_any, pc, stack, bracket, brackets,
          total, satisfies, result, examined>>

(***************************************************************************)
(* Bounds of the model.                                                    *)
(***************************************************************************)
\* number of teams of the exhaustive family (pools in every order of every
\* subset of so many teams)
MaxTeams == 4
\* longest pool of the roster family (prefixes of the roster)
MaxPool == 8
\* longest pool of the ruled roster family (prefixes of the roster)
MaxRuledPool == 6

(***************************************************************************)
(* Teams: the frozen dataclass Team(region, tag, full_name).               *)
(***************************************************************************)
MkTeam(r, t, f) == [region |-> r, tag |-> t, full_name |-> f]

\* Team(): the default-constructed team, used as the bye of an odd pool
NoTeam == MkTeam("other", "", "")

T1  == MkTeam("lck", "T1 ", "T1")
GEN == MkTeam("lck", "GEN", "Gen.G Esports")
HLE == MkTeam("lck", "HLE", "Hanwha Life Esports")
DK  == MkTeam("lck", "DK ", "Dplus Kia")
KT  == MkTeam("lck", "KT ", "KT Rolster")
G2  == MkTeam("lec", "G2 ", "G2 Esports")
FNC == MkTeam("lec", "FNC", "Fnatic")
BLG == MkTeam("lpl", "BLG", "Bilibili Gaming")
FLY == MkTeam("lcs", "FLY", "FlyQuest")
C9  == MkTeam("lcs", "C9 ", "Cloud9")

(***************************************************************************)
(* Rules: callables (Team, Team) -> bool.  A rule is a record naming the   *)
(* function and the two teams its closure captured (NoTeam when none).     *)
(***************************************************************************)
MkRule(k, a, b) == [kind |-> k, a |-> a, b |-> b]

\* the function diff_region itself
DiffRegion == MkRule("diff_region", NoTeam, NoTeam)

diff_regionMut(a, b) == a.tag # b.tag
diff_region(a, b) == a.region # b.region

\* invalid_matchup(a, b): the closure lambda x, y: not (...)
invalid_matchup(a, b) == MkRule("invalid_matchup", a, b)

\* a caller-written rule that is not symmetric: lambda x, y: not (x == a and y == b)
OneWay(a, b) == MkRule("one_way", a, b)

\* a caller-written rule that rejects every pair: lambda x, y: False
RejectAll == MkRule("reject_all", NoTeam, NoTeam)

\* rule(x, y): the call of a rule on two teams
CallMut(rule, x, y) ==
    CASE rule.kind = "diff_region" -> diff_region(x, y)
      [] rule.kind = "invalid_matchup" -> ~(x = rule.a /\ y = rule.b)
      [] rule.kind = "one_way" -> ~(x = rule.a /\ y = rule.b)
      [] OTHER -> FALSE
Call(rule, x, y) ==
    CASE rule.kind = "diff_region" -> diff_region(x, y)
      [] rule.kind = "invalid_matchup" ->
            ~((x = rule.a /\ y = rule.b) \/ (x = rule.b /\ y = rule.a))
      [] rule.kind = "one_way" -> ~(x = rule.a /\ y = rule.b)
      [] OTHER -> FALSE

\* all(rule(team1, team2) for rule in rules)
AllRulesMut(rls, x, y) == TRUE
AllRulesAnyMut(rls, x, y) == \E k \in DOMAIN rls : Call(rls[k], x, y)
AllRules(rls, x, y) == \A k \in DOMAIN rls : Call(rls[k], x, y)

(***************************************************************************)
(* choose_matchup                                                          *)
(***************************************************************************)
\* other_teams = teams[1:]
OtherTeams(ts) == Tail(ts)

\* other_teams[:i] + other_teams[(i + 1):], for the i-th candidate (from 1)
RemainingMut(other, i) == SubSeq(other, 1, i - 1) \o SubSeq(other, i + 2, Len(other))
Remaining(other, i) == SubSeq(other, 1, i - 1) \o SubSeq(other, i + 1, Len(other))

\* the number of candidates the loop over enumerate(other_teams) visits
CandidatesMut(ts) == Len(OtherTeams(ts)) - 1
Candidates(ts) == Len(OtherTeams(ts))

\* [(team1, team2)] for the i-th candidate (from 1)
MatchupMut(ts, i) == << <<ts[1], OtherTeams(ts)[Candidates(ts) - i + 1]>> >>
Matchup(ts, i) == << <<ts[1], OtherTeams(ts)[i]>> >>

\* matchup + other_matchup
AssembleMut(matchup, other_matchup) == other_matchup
AssembleBehindMut(matchup, other_matchup) == other_matchup \o matchup
Assemble(matchup, other_matchup) == matchup \o other_matchup

(***************************************************************************)
(* generate_brackets as a function: the sequence of all brackets it        *)
(* yields, in the order it yields them.                                    *)
(***************************************************************************)
RECURSIVE Flatten(_)
Flatten(ss) == IF ss = <<>> THEN <<>> ELSE Head(ss) \o Flatten(Tail(ss))

\* the (matchup, other_teams) pairs choose_matchup yields, in order
choose_matchup(ts, rls) ==
    LET other == OtherTeams(ts)
        valid == SelectSeq([i \in 1..Candidates(ts) |-> i],
                           LAMBDA i : AllRules(rls, ts[1], other[i]))
    IN  [k \in 1..Len(valid) |->
            [matchup |-> Matchup(ts, valid[k]),
             other_teams |-> Remaining(other, valid[k])]]

\* case 0, case 1, case 2: the brackets a pool of at most 2 teams yields
BaseCaseRuledMut(ts, rls) ==
    CASE Len(ts) = 0 -> <<>>
      [] Len(ts) = 1 -> IF AllRules(rls, ts[1], NoTeam)
                        THEN << << <<ts[1], NoTeam>> >> >>
                        ELSE <<>>
      [] OTHER -> IF AllRules(rls, ts[1], ts[2])
                  THEN << << <<ts[1], ts[2]>> >> >>
                  ELSE <<>>
BaseCaseMut(ts, rls) ==
    CASE Len(ts) = 0 -> << <<>> >>
      [] Len(ts) = 1 -> << << <<ts[1], NoTeam>> >> >>
      [] OTHER -> IF AllRules(rls, ts[1], ts[2])
                  THEN << << <<ts[1], ts[2]>> >> >>
                  ELSE <<>>
BaseCase(ts, rls) ==
    CASE Len(ts) = 0 -> <<>>
      [] Len(ts) = 1 -> << << <<ts[1], NoTeam>> >> >>
      [] OTHER -> IF AllRules(rls, ts[1], ts[2])
                  THEN << << <<ts[1], ts[2]>> >> >>
                  ELSE <<>>

RECURSIVE generate_brackets(_, _)
generate_brackets(ts, rls) ==
    CASE Len(ts) <= 2 -> BaseCase(ts, rls)
      [] OTHER ->
            LET ms == choose_matchup(ts, rls)
            IN  Flatten([k \in 1..Len(ms) |->
                    LET sub == generate_brackets(ms[k].other_teams, rls)
                    IN  [j \in 1..Len(sub) |-> Assemble(ms[k].matchup, sub[j])]])

(***************************************************************************)
(* prod_odd_to, bracket_has_event                                          *)
(***************************************************************************)
\* prod(i for i in range(1, n, 2))
RECURSIVE ProdRange(_, _)
ProdRange(i, n) == IF i >= n THEN 1 ELSE i * ProdRange(i + 2, n)

prod_odd_toMut(n) == ProdRange(1, n - 1)
prod_odd_to(n) == ProdRange(1, n)

\* (a, b) in bracket
InBracket(p, b) == \E k \in DOMAIN b : b[k] = p

bracket_has_eventMut(b, event) == InBracket(<<event[1], event[2]>>, b)
bracket_has_event(b, event) ==
    InBracket(<<event[1], event[2]>>, b) \/ InBracket(<<event[2], event[1]>>, b)

\* func(bracket_has_event(bracket, event) for event in events), func = any or all
FuncAllMut(any, b, evs) == \A k \in DOMAIN evs : bracket_has_event(b, evs[k])
FuncMut(any, b, evs) == \E k \in DOMAIN evs : bracket_has_event(b, evs[k])
Func(any, b, evs) ==
    IF any THEN \E k \in DOMAIN evs : bracket_has_event(b, evs[k])
           ELSE \A k \in DOMAIN evs : bracket_has_event(b, evs[k])

\* the loop over the brackets: total counts each, satisfies those func accepts
Tally(bs, evs, any) ==
    <<Cardinality({k \in DOMAIN bs : Func(any, bs[k], evs)}), Len(bs)>>

\* brute_force as a function: the pair (satisfies, total) it returns
brute_force(ts, evs, rls, any) == Tally(generate_brackets(ts, rls), evs, any)

(***************************************************************************)
(* binomial_coefficient (src/probability/probability.py) and the closed    *)
(* form of the total under forbidden pairs.                                *)
(***************************************************************************)
\* for i in range(k): res = res * (n - i); res = res // (i + 1)
RECURSIVE BinomialLoop(_, _, _, _)
BinomialLoop(n, k, i, res) ==
    IF i >= k THEN res ELSE BinomialLoop(n, k, i + 1, (res * (n - i)) \div (i + 1))

RECURSIVE binomial_coefficient(_, _)
binomial_coefficientMut(n, k) ==
    IF k > n - k THEN binomial_coefficient(n, n - k) ELSE BinomialLoop(n, k, 1, 1)
binomial_coefficient(n, k) ==
    IF k > n - k THEN binomial_coefficient(n, n - k) ELSE BinomialLoop(n, k, 0, 1)

\* the sum over i from lo to r of (-1)^i * C(r, i) * (n-2i-1)!!, with
\* (n-2i-1)!! the product of the odd integers below n - 2i
RECURSIVE InclusionExclusion(_, _, _)
InclusionExclusion(n, r, lo) ==
    IF lo > r THEN 0
    ELSE (IF lo % 2 = 0 THEN 1 ELSE -1) * binomial_coefficient(r, lo) * prod_odd_to(n - 2 * lo)
         + InclusionExclusion(n, r, lo + 1)

\* the closed-form total for n entrants under r forbidden pairs
ExactTotal(n, r) == InclusionExclusion(n, r, 0)

(***************************************************************************)
(* The inputs of a query.                                                  *)
(***************************************************************************)
Query(ts, evs, rls, any) == [teams |-> ts, events |-> evs, rules |-> rls, use_any |-> any]

SeqsUpTo(S, n) == UNION {[1..k -> S] : k \in 0..n}

\* the lists of pairwise different elements of S
Injective(S) ==
    {s \in SeqsUpTo(S, Cardinality(S)) : \A i, j \in DOMAIN s : i # j => s[i] # s[j]}

\* the teams of test_brute_force and main, with two more of the registry
Roster == <<T1, GEN, HLE, DK, G2, FNC, BLG, FLY, KT, C9>>

Prefix(n) == SubSeq(Roster, 1, n)

\* teams of mixed regions for the exhaustive family
UniverseList == <<T1, G2, GEN, BLG, FNC, FLY>>

Universe == {UniverseList[k] : k \in 1..MaxTeams}

\* event lists for the roster families: those of test_brute_force and
\* main, one with its members swapped, longer lists of events that share
\* no team, and one list whose events share a team
EventLists ==
    {<<>>,
     << <<T1, G2>> >>,
     << <<G2, T1>> >>,
     << <<T1, GEN>> >>,
     << <<T1, GEN>>, <<HLE, G2>> >>,
     << <<DK, FNC>>, <<DK, FLY>> >>,
     << <<T1, GEN>>, <<HLE, G2>>, <<DK, FNC>> >>,
     << <<GEN, T1>>, <<DK, HLE>>, <<G2, FNC>>, <<FLY, BLG>> >>}

\* event lists for the exhaustive family: single events, one of them with
\* its members swapped, one pairing a team with itself, one with a team
\* that is in no pool; pairs of events that share no team, share one team,
\* or are the same pairing twice
SmallEventLists ==
    {<<>>,
     << <<T1, G2>> >>,
     << <<G2, T1>> >>,
     << <<GEN, BLG>> >>,
     << <<T1, T1>> >>,
     << <<T1, KT>> >>,
     << <<T1, G2>>, <<GEN, BLG>> >>,
     << <<T1, GEN>>, <<G2, BLG>> >>,
     << <<T1, G2>>, <<T1, GEN>> >>,
     << <<G2, T1>>, <<T1, G2>> >>}

\* rule lists for the exhaustive family
SmallRuleLists ==
    {<<>>,
     <<DiffRegion>>,
     <<invalid_matchup(T1, G2)>>,
     <<OneWay(T1, G2)>>,
     <<RejectAll>>,
     <<DiffRegion, invalid_matchup(T1, G2)>>,
     <<invalid_matchup(T1, G2), invalid_matchup(GEN, BLG)>>}

\* rules for the ruled roster family
RosterRules == {DiffRegion, invalid_matchup(T1, G2), OneWay(T1, G2), RejectAll,
                invalid_matchup(T1, GEN), invalid_matchup(HLE, G2)}

\* every order of every sub-pool of the universe, short rule and event lists
ExhaustiveQueries ==
    {Query(ts, evs, rls, any) :
        ts \in Injective(Universe),
        evs \in SmallEventLists,
        rls \in SmallRuleLists,
        any \in BOOLEAN}

\* prefixes of the roster without rules
RosterQueries ==
    {Query(Prefix(n), evs, <<>>, any) :
        n \in 0..MaxPool,
        evs \in EventLists,
        any \in BOOLEAN}

\* prefixes of the roster under one rule
RuledQueries ==
    {Query(Prefix(n), evs, <<r>>, FALSE) :
        n \in 0..MaxRuledPool,
        evs \in EventLists,
        r \in RosterRules}

\* lists of forbidden pairs: pairs that share no team, and pairs that do
ForbiddenLists ==
    {<<invalid_matchup(T1, GEN), invalid_matchup(HLE, DK)>>,
     <<invalid_matchup(T1, G2), invalid_matchup(GEN, HLE), invalid_matchup(DK, FNC)>>,
     <<invalid_matchup(T1, GEN), invalid_matchup(T1, HLE)>>}

\* prefixes of the roster under several forbidden pairs
ForbiddenQueries ==
    {Query(Prefix(n), <<>>, rls, FALSE) :
        n \in 0..MaxPool,
        rls \in ForbiddenLists}

\* the queries of test_brute_force and of main
FixtureTeams == <<T1, GEN, HLE, DK, G2, FNC, BLG, FLY>>

SameRegionRules == <<invalid_matchup(T1, GEN), invalid_matchup(T1, HLE),
                     invalid_matchup(T1, DK), invalid_matchup(GEN, HLE),
                     invalid_matchup(GEN, DK), invalid_matchup(HLE, DK),
                     invalid_matchup(FNC, G2)>>

FixtureQueries ==
    {Query(FixtureTeams, << <<T1, G2>> >>, <<>>, FALSE),
     Query(FixtureTeams, << <<T1, G2>> >>, <<DiffRegion>>, FALSE),
     Query(FixtureTeams, << <<T1, G2>> >>, SameRegionRules, FALSE),
     Query(FixtureTeams, << <<T1, G2>> >>, <<invalid_matchup(T1, G2)>>, FALSE),
     Query(FixtureTeams, << <<T1, GEN>>, <<HLE, G2>> >>, <<invalid_matchup(T1, G2)>>, FALSE),
     Query(<<GEN, DK, G2, FNC, BLG, FLY>>, <<>>, <<DiffRegion>>, FALSE),
     Query(<<GEN, HLE, DK, FNC, BLG, FLY>>, <<>>, <<DiffRegion>>, FALSE),
     Query(FixtureTeams, << <<DK, FNC>>, <<DK, FLY>> >>, <<DiffRegion>>, TRUE)}

Queries ==
    ExhaustiveQueries \cup RosterQueries \cup RuledQueries \cup ForbiddenQueries
        \cup FixtureQueries

(***************************************************************************)
(* The state machine.                                                      *)
(*   pc        where brute_force is: "call" before the loop, "gen" while   *)
(*             the generator runs to its next yield, "body" in the loop    *)
(*             body, "done" after the return                               *)
(*   stack     the frames of generate_brackets, outermost first; a frame   *)
(*             holds its pool and i, the candidate of choose_matchup it is *)
(*             suspended at (pools of 3 and more), or 1 once it has        *)
(*             yielded (pools of 1 and 2)                                  *)
(*   bracket   the bracket of the current loop iteration                   *)
(*   brackets  the brackets yielded so far                                 *)
(*   examined  how many candidate pairings have had all(rule(...)) run on  *)
(*             them so far                                                 *)
(***************************************************************************)
Frame(ts) == [teams |-> ts, i |-> 0]

Top == stack[Len(stack)]

Init ==
    /\ \E q \in Queries :
          /\ teams = q.teams
          /\ events = q.events
          /\ rules = q.rules
          /\ use_any = q.use_any
    /\ pc = "call"
    /\ stack = <<>>
    /\ bracket = <<>>
    /\ brackets = <<>>
    /\ total = 0
    /\ satisfies = 0
    /\ result = <<>>
    /\ examined = 0

\* brute_force up to the first request for a bracket
Start ==
    /\ pc = "call"
    /\ pc' = "gen"
    /\ total' = 0
    /\ satisfies' = 0
    /\ stack' = <<Frame(teams)>>
    /\ UNCHANGED <<teams, events, rules, use_any, bracket, brackets, result, examined>>

\* the candidates on which all(rule(team1, team2) ...) runs when the loop of
\* choose_matchup moves to its i-th candidate: that candidate alone
ExaminesMut(ts, i) == IF i = 1 THEN Candidates(ts) ELSE 0
Examines(ts, i) == 1

\* case _: the loop of choose_matchup moves to its next candidate; a valid
\* one is yielded with the remaining teams and generate_brackets recurses
Advance ==
    /\ pc = "gen"
    /\ stack # <<>>
    /\ Len(Top.teams) >= 3
    /\ Top.i < Candidates(Top.teams)
    /\ LET ts == Top.teams
           i == Top.i + 1
           here == [stack EXCEPT ![Len(stack)].i = i]
       IN  stack' = IF AllRules(rules, ts[1], OtherTeams(ts)[i])
                    THEN Append(here, Frame(Remaining(OtherTeams(ts), i)))
                    ELSE here
    /\ examined' = examined + Examines(Top.teams, Top.i + 1)
    /\ UNCHANGED <<teams, events, rules, use_any, pc, bracket, brackets,
                   total, satisfies, result>>

\* does a frame with a pool of at most 2 teams, not yet run, yield?
BaseYields(ts) == BaseCase(ts, rules) # <<>>

\* the bracket such a frame yields
BaseBracket(ts) == BaseCase(ts, rules)[1]

\* the yield of frame d and of all frames above it: matchup + other_matchup
RECURSIVE YieldUp(_, _)
YieldUp(d, b) ==
    IF d = 0 THEN b
    ELSE YieldUp(d - 1, Assemble(Matchup(stack[d].teams, stack[d].i), b))

\* case 1, case 2: the innermost frame yields; every enclosing frame
\* prepends its matchup and yields in turn, up to the loop of brute_force
Yield ==
    /\ pc = "gen"
    /\ stack # <<>>
    /\ Len(Top.teams) <= 2
    /\ Top.i = 0
    /\ BaseYields(Top.teams)
    /\ bracket' = YieldUp(Len(stack) - 1, BaseBracket(Top.teams))
    /\ stack' = [stack EXCEPT ![Len(stack)].i = 1]
    /\ pc' = "body"
    /\ examined' = IF Len(Top.teams) = 2 THEN examined + 1 ELSE examined
    /\ UNCHANGED <<teams, events, rules, use_any, brackets, total, satisfies, result>>

\* has the innermost frame nothing more to yield?
ExhaustedMut(f) == Len(f.teams) <= 2 /\ (f.i = 1 \/ ~BaseYields(f.teams))
Exhausted(f) ==
    IF Len(f.teams) >= 3 THEN f.i = Candidates(f.teams)
    ELSE f.i = 1 \/ ~BaseYields(f.teams)

\* the innermost frame finishes; when it was the outermost one the loop of
\* brute_force ends and brute_force returns (satisfies, total)
Return ==
    /\ pc = "gen"
    /\ stack # <<>>
    /\ Exhausted(Top)
    /\ stack' = SubSeq(stack, 1, Len(stack) - 1)
    /\ IF Len(stack) = 1
       THEN pc' = "done" /\ result' = <<satisfies, total>>
       ELSE UNCHANGED <<pc, result>>
    /\ examined' = IF Len(Top.teams) = 2 /\ Top.i = 0 THEN examined + 1 ELSE examined
    /\ UNCHANGED <<teams, events, rules, use_any, bracket, brackets, total, satisfies>>

\* the body of the loop of brute_force
BodyMut ==
    /\ pc = "body"
    /\ total' = IF Func(use_any, bracket, events) THEN total ELSE total + 1
    /\ satisfies' = IF Func(use_any, bracket, events) THEN satisfies + 1 ELSE satisfies
    /\ brackets' = Append(brackets, bracket)
    /\ pc' = "gen"
    /\ UNCHANGED <<teams, events, rules, use_any, stack, bracket, result, examined>>
Body ==
    /\ pc = "body"
    /\ total' = total + 1
    /\ satisfies' = IF Func(use_any, bracket, events) THEN satisfies + 1 ELSE satisfies
    /\ brackets' = Append(brackets, bracket)
    /\ pc' = "gen"
    /\ UNCHANGED <<teams, events, rules, use_any, stack, bracket, result, examined>>

Next == Start \/ Advance \/ Yield \/ Return \/ Body

Spec == Init /\ [][Next]_vars

\* the queries of the runs followed to their end: every pool and rule list
\* of Queries, with the event lists of test_brute_force
LiveQueries == {q \in Queries : q.events = <<>> /\ ~q.use_any} \cup FixtureQueries

LiveInit ==
    /\ \E q \in LiveQueries :
          /\ teams = q.teams
          /\ events = q.events
          /\ rules = q.rules
          /\ use_any = q.use_any
    /\ pc = "call"
    /\ stack = <<>>
    /\ bracket = <<>>
    /\ brackets = <<>>
    /\ total = 0
    /\ satisfies = 0
    /\ result = <<>>
    /\ examined = 0

\* the interpreter runs the one thread of brute_force as long as it has a
\* step to take
LiveSpec == LiveInit /\ [][Next]_vars /\ WF_vars(Next)

(***************************************************************************)
(* Vocabulary of the properties, stated on sets and independent of the     *)
(* operators above.                                                        *)
(***************************************************************************)
TypeOK ==
    /\ pc \in {"call", "gen", "body", "done"}
    /\ total \in Nat
    /\ satisfies \in Nat

TeamSet(ts) == {ts[k] : k \in DOMAIN ts}

Distinct(ts) == Cardinality(TeamSet(ts)) = Len(ts)

Even(n) == n % 2 = 0

\* how often team t occurs in bracket b
Occurrences(t, b) ==
    Cardinality({k \in DOMAIN b : b[k][1] = t}) + Cardinality({k \in DOMAIN b : b[k][2] = t})

\* every rule of the list accepts (x, y), in this argument order
Accepts(rls, x, y) == \A k \in DOMAIN rls : Call(rls[k], x, y)

\* every rule of the list gives the same answer for both argument orders
Symmetric(rls, ts) ==
    \A k \in DOMAIN rls : \A x, y \in TeamSet(ts) :
        Call(rls[k], x, y) = Call(rls[k], y, x)

\* a bracket read as an unordered set of unordered pairs
AsMatching(b) == {{b[k][1], b[k][2]} : k \in DOMAIN b}

\* all perfect matchings of the set S whose pairs satisfy the rules
RECURSIVE Matchings(_, _)
Matchings(S, rls) ==
    IF S = {} THEN {{}}
    ELSE LET x == CHOOSE x \in S : TRUE
         IN  UNION {{M \cup {{x, y}} : M \in Matchings(S \ {x, y}, rls)} :
                      y \in {y \in S \ {x} : Accepts(rls, x, y)}}

\* (m)!! for odd m, with (-1)!! = 1
RECURSIVE DoubleFactorial(_)
DoubleFactorial(m) == IF m <= 0 THEN 1 ELSE m * DoubleFactorial(m - 2)

\* events that pair two different teams of the pool and share no team
ProperEvents(evs, ts) ==
    /\ \A k \in DOMAIN evs : evs[k][1] # evs[k][2] /\ {evs[k][1], evs[k][2]} \subseteq TeamSet(ts)
    /\ \A j, k \in DOMAIN evs : j # k => {evs[j][1], evs[j][2]} \cap {evs[k][1], evs[k][2]} = {}

\* the pool without the members of the events, in the original order
Reduced(ts, evs) ==
    SelectSeq(ts, LAMBDA t : \A k \in DOMAIN evs : t # evs[k][1] /\ t # evs[k][2])

\* the bracket has a pairing of the two members of the event
Contains(b, e) == {e[1], e[2]} \in AsMatching(b)

\* the combinator of the query over the events
Combinator(b) ==
    IF use_any THEN \E k \in DOMAIN events : Contains(b, events[k])
               ELSE \A k \in DOMAIN events : Contains(b, events[k])

\* the running generator and the function agree on what is yielded
Agreement ==
    pc = "done" => brackets = generate_brackets(teams, rules)

(***************************************************************************)
(* Properties.                                                             *)
(***************************************************************************)

\* C1: every bracket yielded for a pool of one or more pairwise-distinct
\* entrants is an exact partition of the pool: each entrant of the pool
\* occurs in exactly one pairing, no other team occurs except the bye
\* Team(), and the bye occurs once when the pool is odd and never when it
\* is even.
C1_Partition ==
    (pc = "body" /\ Len(teams) >= 1 /\ Distinct(teams)) =>
        /\ \A t \in TeamSet(teams) : Occurrences(t, bracket) = 1
        /\ \A k \in DOMAIN bracket :
              {bracket[k][1], bracket[k][2]} \subseteq TeamSet(teams) \cup {NoTeam}
        /\ Occurrences(NoTeam, bracket) = IF Even(Len(teams)) THEN 0 ELSE 1

C1_Witness ==
    /\ pc = "body"
    /\ Len(teams) = 5
    /\ Len(brackets) = 7
    /\ Occurrences(NoTeam, bracket) = 1

\* C2: every pairing (a, b) of two real entrants in a yielded bracket
\* satisfies every rule of the query, rule(a, b), at every recursion depth.
C2_RulesHold ==
    pc = "body" =>
        \A k \in DOMAIN bracket :
            bracket[k][2] # NoTeam => Accepts(rules, bracket[k][1], bracket[k][2])

C2_Witness ==
    /\ pc = "body"
    /\ teams = FixtureTeams
    /\ rules = <<DiffRegion>>
    /\ Len(stack) = 4

\* C3 as stated: for every even pool of pairwise-distinct entrants and
\* every list of symmetric rules, the yielded brackets, read as unordered
\* sets of unordered pairs, are all the perfect matchings of the pool whose
\* pairs satisfy every rule.
C3_Original ==
    (pc = "done" /\ Even(Len(teams)) /\ Distinct(teams) /\ Symmetric(rules, teams)) =>
        {AsMatching(brackets[k]) : k \in DOMAIN brackets} = Matchings(TeamSet(teams), rules)

\* C3 amended: the same for every non-empty even pool; the empty pool yields
\* no bracket although it has one perfect matching, the empty one.
C3_Complete ==
    (pc = "done" /\ Even(Len(teams)) /\ Len(teams) >= 2 /\ Distinct(teams)
        /\ Symmetric(rules, teams)) =>
        {AsMatching(brackets[k]) : k \in DOMAIN brackets} = Matchings(TeamSet(teams), rules)

C3_Witness ==
    /\ pc = "done"
    /\ Len(teams) = 6
    /\ rules = <<DiffRegion>>
    /\ Len(brackets) = 6

\* C4: no two brackets yielded by one enumeration over pairwise-distinct
\* entrants are equal as unordered sets of unordered pairings: each newly
\* yielded bracket differs, as such a set, from every bracket yielded
\* before it.
C4_Unique ==
    (pc = "body" /\ Distinct(teams)) =>
        \A k \in DOMAIN brackets : AsMatching(brackets[k]) # AsMatching(bracket)

C4_Witness ==
    /\ pc = "done"
    /\ Len(teams) = 6
    /\ Len(brackets) = 15

\* C5: without rules, a pool of even size n, 2 <= n <= 8, yields
\* prod_odd_to(n) = (n-1)!! brackets, and this is the total brute_force
\* returns: 1, 3, 15 and 105 for n = 2, 4, 6 and 8.
C5_Count ==
    (pc = "done" /\ rules = <<>> /\ Even(Len(teams)) /\ Len(teams) >= 2 /\ Len(teams) <= 8) =>
        /\ Len(brackets) = prod_odd_to(Len(teams))
        /\ result[2] = prod_odd_to(Len(teams))
        /\ result[2] = DoubleFactorial(Len(teams) - 1)
        /\ Len(teams) = 2 => result[2] = 1
        /\ Len(teams) = 4 => result[2] = 3
        /\ Len(teams) = 6 => result[2] = 15
        /\ Len(teams) = 8 => result[2] = 105

C5_Witness ==
    /\ pc = "done"
    /\ rules = <<>>
    /\ Len(teams) = 8
    /\ result[2] = 105

\* C6 as stated: the empty pool yields exactly one bracket, the empty one,
\* and the total is 1 for every rule list.
C6_Original ==
    (pc = "done" /\ teams = <<>>) => (brackets = << <<>> >> /\ result[2] = 1)

\* C6 amended: the empty pool yields no bracket and brute_force returns
\* (0, 0) for every rule list.
C6_EmptyPool ==
    (pc = "done" /\ teams = <<>>) => (brackets = <<>> /\ result = <<0, 0>>)

C6_Witness ==
    /\ pc = "done"
    /\ teams = <<>>
    /\ rules # <<>>
    /\ result = <<0, 0>>

\* C7: the two counts of brute_force are non-negative integers and the
\* satisfying count never exceeds the total, during the loop and in the
\* returned pair.
C7_Ordered ==
    /\ satisfies \in Nat
    /\ total \in Nat
    /\ satisfies <= total
    /\ pc = "done" => (result = <<satisfies, total>> /\ result[1] <= result[2])

C7_Witness ==
    /\ pc = "done"
    /\ events # <<>>
    /\ result[1] > 0
    /\ result[1] < result[2]

\* C8: brute_force returns as total the number of brackets the Enumerator
\* yields for the pool and rules, and as satisfying count the number of
\* those brackets for which the combinator holds: every event is contained
\* (all) or at least one event is contained (any).
C8_Tally ==
    pc = "done" =>
        LET all_brackets == generate_brackets(teams, rules)
        IN  /\ brackets = all_brackets
            /\ result[2] = Len(all_brackets)
            /\ result[1] = Cardinality({k \in DOMAIN all_brackets : Combinator(all_brackets[k])})

C8_Witness ==
    /\ pc = "done"
    /\ use_any
    /\ Len(events) = 2
    /\ result = <<12, 24>>

C8_WitnessAll ==
    /\ pc = "done"
    /\ ~use_any
    /\ Len(events) = 2
    /\ result = <<3, 90>>

\* C9 as stated: without rules, for every even pool of n pairwise-distinct
\* entrants and every list of k events that pair different entrants of the
\* pool and share none, the all-semantics result is
\* ((n-2k-1)!!, (n-1)!!).
C9_Original ==
    (pc = "done" /\ rules = <<>> /\ ~use_any /\ Even(Len(teams)) /\ Distinct(teams)
        /\ ProperEvents(events, teams)) =>
        result = <<DoubleFactorial(Len(teams) - 2 * Len(events) - 1),
                   DoubleFactorial(Len(teams) - 1)>>

\* C9 amended: the same for every non-empty even pool (n >= 2); the empty
\* pool gives (0, 0).
C9_Forced ==
    (pc = "done" /\ rules = <<>> /\ ~use_any /\ Even(Len(teams)) /\ Len(teams) >= 2
        /\ Distinct(teams) /\ ProperEvents(events, teams)) =>
        /\ result = <<DoubleFactorial(Len(teams) - 2 * Len(events) - 1),
                      DoubleFactorial(Len(teams) - 1)>>
        /\ (Len(teams) = 8 /\ Len(events) = 1) => result = <<15, 105>>

C9_Witness ==
    /\ pc = "done"
    /\ rules = <<>>
    /\ teams = FixtureTeams
    /\ events = << <<G2, T1>> >>
    /\ ~use_any
    /\ result = <<15, 105>>

C9_WitnessTwo ==
    /\ pc = "done"
    /\ rules = <<>>
    /\ Len(teams) = 8
    /\ Len(events) = 2
    /\ ~use_any
    /\ result = <<3, 105>>

\* C10 as stated: for every even pool of pairwise-distinct entrants, every
\* list of symmetric rules and every list of events that pair different
\* entrants of the pool, share none and satisfy the rules, the
\* all-semantics satisfying count equals the number of brackets the
\* Enumerator yields for the pool without the members of the events.
C10_Original ==
    (pc = "done" /\ ~use_any /\ Even(Len(teams)) /\ Distinct(teams)
        /\ Symmetric(rules, teams) /\ ProperEvents(events, teams)
        /\ \A k \in DOMAIN events : Accepts(rules, events[k][1], events[k][2])) =>
        result[1] = Len(generate_brackets(Reduced(teams, events), rules))

\* C10 amended: the same whenever the events leave at least one entrant of
\* the pool unpaired or the list of events is empty; when a non-empty list
\* of events covers the whole pool the satisfying count is 1 while the
\* Enumerator yields nothing for the empty remaining pool.
C10_Reduction ==
    (pc = "done" /\ ~use_any /\ Even(Len(teams)) /\ Distinct(teams)
        /\ Symmetric(rules, teams) /\ ProperEvents(events, teams)
        /\ \A k \in DOMAIN events : Accepts(rules, events[k][1], events[k][2])) =>
        IF events # <<>> /\ Reduced(teams, events) = <<>>
        THEN result[1] = 1 /\ generate_brackets(<<>>, rules) = <<>>
        ELSE result[1] = Len(generate_brackets(Reduced(teams, events), rules))

C10_Witness ==
    /\ pc = "done"
    /\ teams = FixtureTeams
    /\ rules = <<invalid_matchup(T1, G2)>>
    /\ events = << <<T1, GEN>>, <<HLE, G2>> >>
    /\ result = <<3, 90>>

C10_WitnessRegion ==
    /\ pc = "done"
    /\ teams = FixtureTeams
    /\ rules = <<DiffRegion>>
    /\ events = << <<T1, G2>> >>
    /\ result = <<6, 24>>

\* C11: while a rule invalid_matchup(a, b) is in the rule list no yielded
\* bracket pairs a with b, in either member order, and a query whose event
\* list holds (a, b) or (b, a) has the all-semantics satisfying count 0;
\* the fixture of 8 teams with the one rule forbidding (T1, G2) and the
\* event (T1, G2) returns (0, 90).
C11_Forbidden ==
    /\ pc = "body" =>
          \A k \in DOMAIN rules :
              rules[k].kind = "invalid_matchup" =>
                  \A j \in DOMAIN bracket :
                      /\ bracket[j] # <<rules[k].a, rules[k].b>>
                      /\ bracket[j] # <<rules[k].b, rules[k].a>>
    /\ (pc = "done" /\ ~use_any
            /\ \E k \in DOMAIN rules : \E j \in DOMAIN events :
                  /\ rules[k].kind = "invalid_matchup"
                  /\ {events[j][1], events[j][2]} = {rules[k].a, rules[k].b}) =>
          result[1] = 0
    /\ (pc = "done" /\ ~use_any /\ teams = FixtureTeams /\ events = << <<T1, G2>> >>
            /\ rules = <<invalid_matchup(T1, G2)>>) =>
          result = <<0, 90>>

C11_Witness ==
    /\ pc = "done"
    /\ ~use_any
    /\ teams = FixtureTeams
    /\ events = << <<T1, G2>> >>
    /\ rules = <<invalid_matchup(T1, G2)>>
    /\ result = <<0, 90>>

\* the rule list holds only forbidden pairs, each once
ForbiddenPairsOnly(rls) ==
    /\ \A k \in DOMAIN rls : rls[k].kind = "invalid_matchup"
    /\ \A j, k \in DOMAIN rls : j # k => {rls[j].a, rls[j].b} # {rls[k].a, rls[k].b}

\* the forbidden pairs are pairs of different teams of the pool and share
\* no team
DisjointForbidden(rls, ts) ==
    /\ \A k \in DOMAIN rls : rls[k].a # rls[k].b /\ {rls[k].a, rls[k].b} \subseteq TeamSet(ts)
    /\ \A j, k \in DOMAIN rls : j # k => {rls[j].a, rls[j].b} \cap {rls[k].a, rls[k].b} = {}

\* C12 as stated: for every even pool of n entrants and every set of r
\* forbidden-pair rules the closed form, the sum over i from 0 to r of
\* (-1)^i * C(r, i) * (n-2i-1)!!, equals the total the Enumerator tallies.
C12_Original ==
    (pc = "done" /\ Even(Len(teams)) /\ Distinct(teams) /\ ForbiddenPairsOnly(rules)) =>
        result[2] = ExactTotal(Len(teams), Len(rules))

\* C12 amended: the closed form equals the tallied total for every
\* non-empty even pool when the forbidden pairs are pairs of entrants of the
\* pool that share no entrant, as for the fixture with 1 forbidden pair
\* (total 90); for the fixture with 7 forbidden pairs, which share
\* entrants, the tallied total is 24 and the closed form gives 48.
C12_ClosedForm ==
    /\ (pc = "done" /\ Even(Len(teams)) /\ Len(teams) >= 2 /\ Distinct(teams)
            /\ ForbiddenPairsOnly(rules) /\ DisjointForbidden(rules, teams)) =>
          result[2] = ExactTotal(Len(teams), Len(rules))
    /\ (pc = "done" /\ teams = FixtureTeams /\ rules = <<invalid_matchup(T1, G2)>>) =>
          (result[2] = 90 /\ ExactTotal(8, 1) = 90)
    /\ (pc = "done" /\ teams = FixtureTeams /\ rules = SameRegionRules) =>
          (result[2] = 24 /\ ExactTotal(8, 7) = 48)

C12_Witness ==
    /\ pc = "done"
    /\ Len(teams) = 8
    /\ Len(rules) = 3
    /\ DisjointForbidden(rules, teams)
    /\ result[2] = ExactTotal(8, 3)
    /\ result[2] = 68

\* the pairs of positions of the pool that hold teams of the same region
SameRegionPairs(ts) ==
    {p \in (DOMAIN ts) \X (DOMAIN ts) : p[1] < p[2] /\ ts[p[1]].region = ts[p[2]].region}

\* a list with one rule invalid_matchup(x, y) for every same-region pair
RECURSIVE ForbidAll(_, _)
ForbidAll(ts, ps) ==
    IF ps = {} THEN <<>>
    ELSE LET p == CHOOSE p \in ps : TRUE
         IN  <<invalid_matchup(ts[p[1]], ts[p[2]])>> \o ForbidAll(ts, ps \ {p})

\* C13: for every pool of pairwise-distinct entrants and every event list,
\* brute_force under [diff_region] returns the same pair as under the rules
\* invalid_matchup(x, y) for all same-region pairs x, y of the pool; the 7
\* forbidden pairs of the fixture are the same-region pairs of its pool and
\* both rule lists give (6, 24) for the event (T1, G2).
C13_Encodings ==
    /\ (pc = "done" /\ rules = <<DiffRegion>> /\ Distinct(teams)) =>
          result = brute_force(teams, events, ForbidAll(teams, SameRegionPairs(teams)), use_any)
    /\ (pc = "done" /\ teams = FixtureTeams /\ events = << <<T1, G2>> >> /\ ~use_any
            /\ rules \in {<<DiffRegion>>, SameRegionRules}) =>
          /\ result = <<6, 24>>
          /\ {{SameRegionRules[k].a, SameRegionRules[k].b} : k \in DOMAIN SameRegionRules}
                = {{teams[p[1]], teams[p[2]]} : p \in SameRegionPairs(teams)}

C13_Witness ==
    /\ pc = "done"
    /\ teams = FixtureTeams
    /\ rules = <<DiffRegion>>
    /\ events = << <<T1, G2>> >>
    /\ result = <<6, 24>>

\* the event list is impossible: an event pairs a team with itself, or
\* names a team that is neither in the pool nor the bye, or two events
\* share a team without being the same pairing
Impossible(evs, ts) ==
    \/ \E k \in DOMAIN evs : evs[k][1] = evs[k][2]
    \/ \E k \in DOMAIN evs : ~({evs[k][1], evs[k][2]} \subseteq TeamSet(ts) \cup {NoTeam})
    \/ \E j, k \in DOMAIN evs :
          /\ {evs[j][1], evs[j][2]} # {evs[k][1], evs[k][2]}
          /\ {evs[j][1], evs[j][2]} \cap {evs[k][1], evs[k][2]} # {}

\* C14 as stated: a query whose forced events share an entrant, name an
\* entrant that is not in the pool, or pair an entrant with itself returns
\* (0, 0).  (Stated here for all-semantics and for events that share an
\* entrant without being the same pairing, the cases in which the
\* satisfying count is indeed 0.)
C14_Original ==
    (pc = "done" /\ ~use_any /\ Distinct(teams) /\ Impossible(events, teams)) =>
        result = <<0, 0>>

\* C14 amended: such a query, under all-semantics and over a pool of
\* pairwise-distinct entrants, returns (0, total_count): the satisfying
\* count is 0 and the total is the number of brackets the pool has under
\* the rules, whatever the events are (105 for 8 entrants without rules).
C14_Impossible ==
    /\ (pc = "done" /\ ~use_any /\ Distinct(teams) /\ Impossible(events, teams)) =>
          /\ result[1] = 0
          /\ result[2] = Len(brackets)
          /\ result[2] = Cardinality(
                IF Len(teams) = 0 THEN {}
                ELSE IF Even(Len(teams)) /\ Symmetric(rules, teams)
                     THEN Matchings(TeamSet(teams), rules)
                     ELSE {AsMatching(brackets[k]) : k \in DOMAIN brackets})
    /\ (pc = "done" /\ ~use_any /\ rules = <<>> /\ Len(teams) = 8
            /\ Impossible(events, teams)) =>
          result = <<0, 105>>

C14_Witness ==
    /\ pc = "done"
    /\ ~use_any
    /\ rules = <<>>
    /\ teams = FixtureTeams
    /\ events = << <<DK, FNC>>, <<DK, FLY>> >>
    /\ result = <<0, 105>>

C14_WitnessSelf ==
    /\ pc = "done"
    /\ ~use_any
    /\ Len(teams) = 4
    /\ events = << <<T1, T1>> >>
    /\ result = <<0, 3>>

\* rules and events a query is extended by
ExtraRules ==
    {DiffRegion, RejectAll, invalid_matchup(T1, G2), invalid_matchup(T1, GEN),
     invalid_matchup(GEN, BLG), invalid_matchup(HLE, G2), OneWay(T1, G2), OneWay(G2, T1)}

ExtraEvents ==
    {<<T1, G2>>, <<G2, T1>>, <<T1, GEN>>, <<GEN, BLG>>, <<HLE, G2>>, <<DK, FNC>>,
     <<T1, T1>>, <<T1, KT>>}

Range(s) == {s[k] : k \in DOMAIN s}

\* C15: for every pool, rule list R and additional rule q, the brackets
\* yielded under R plus q are among those yielded under R, so the total
\* under R plus q is at most the total under R.
C15_RuleMonotone ==
    pc = "done" =>
        \A q \in ExtraRules :
            LET more == generate_brackets(teams, Append(rules, q))
            IN  /\ Range(more) \subseteq Range(brackets)
                /\ Len(more) <= result[2]
                /\ Tally(more, events, use_any)[2] <= result[2]

C15_Witness ==
    /\ pc = "done"
    /\ teams = FixtureTeams
    /\ rules = <<invalid_matchup(T1, G2)>>
    /\ result[2] = 90
    /\ Len(generate_brackets(teams, Append(rules, DiffRegion))) = 18

\* C16: for every pool, rule list, event list E and additional event e,
\* the all-semantics satisfying count for E plus e is at most the one for
\* E, and the total is the same.
C16_EventMonotone ==
    (pc = "done" /\ ~use_any) =>
        LET bs == generate_brackets(teams, rules)
        IN  \A e \in ExtraEvents :
                LET more == Tally(bs, Append(events, e), FALSE)
                IN  /\ more[1] <= result[1]
                    /\ more[2] = result[2]

C16_Witness ==
    /\ pc = "done"
    /\ ~use_any
    /\ teams = Prefix(6)
    /\ rules = <<invalid_matchup(T1, G2)>>
    /\ events = << <<T1, GEN>> >>
    /\ result = <<3, 12>>
    /\ brute_force(teams, Append(events, <<HLE, G2>>), rules, FALSE) = <<1, 12>>

\* C17: with no events and func=all every yielded bracket is counted, so
\* brute_force returns satisfies = total for every pool and rule set; the
\* two six-team pools of test_brute_force under diff_region give (10, 10)
\* and (6, 6).
C17_NoEvents ==
    (pc = "done" /\ events = <<>> /\ ~use_any) =>
        /\ result[1] = result[2]
        /\ result[2] = Len(brackets)
        /\ (teams = <<GEN, DK, G2, FNC, BLG, FLY>> /\ rules = <<DiffRegion>>)
               => result = <<10, 10>>
        /\ (teams = <<GEN, HLE, DK, FNC, BLG, FLY>> /\ rules = <<DiffRegion>>)
               => result = <<6, 6>>

C17_Witness ==
    /\ pc = "done"
    /\ events = <<>>
    /\ ~use_any
    /\ teams = <<GEN, DK, G2, FNC, BLG, FLY>>
    /\ rules = <<DiffRegion>>
    /\ result = <<10, 10>>

C17_WitnessSix ==
    /\ pc = "done"
    /\ events = <<>>
    /\ ~use_any
    /\ teams = <<GEN, HLE, DK, FNC, BLG, FLY>>
    /\ rules = <<DiffRegion>>
    /\ result = <<6, 6>>

\* the regions of the pool are pairwise distinct
DistinctRegions(ts) ==
    \A i, j \in DOMAIN ts : i # j => ts[i].region # ts[j].region

DegenerateFixtures ==
    {<<GEN, DK, G2, FNC, BLG, FLY>>, <<GEN, HLE, DK, FNC, BLG, FLY>>}

\* C18 as stated: in the two six-team pools of test_brute_force the regions
\* are pairwise distinct and the total under diff_region equals the total of
\* the same pool without rules.
C18_Original ==
    (pc = "done" /\ teams \in DegenerateFixtures /\ rules = <<DiffRegion>>) =>
        /\ DistinctRegions(teams)
        /\ result[2] = Len(generate_brackets(teams, <<>>))

\* C18: over an even pool of distinct teams diff_region leaves the total
\* unchanged exactly when the regions are pairwise distinct; the two
\* six-team pools of test_brute_force hold teams of one region, so their
\* totals under the rule, 10 and 6, are the brackets of the unruled 15 that
\* have no same-region pairing.
C18_RegionRule ==
    (pc = "done" /\ rules = <<DiffRegion>> /\ Distinct(teams)
       /\ Even(Len(teams)) /\ Len(teams) >= 2) =>
        LET free == generate_brackets(teams, <<>>)
            cross == {k \in DOMAIN free :
                        \A m \in DOMAIN free[k] :
                            diff_region(free[k][m][1], free[k][m][2])}
        IN  /\ result[2] = Cardinality(cross)
            /\ (result[2] = Len(free)) <=> DistinctRegions(teams)
            /\ teams \in DegenerateFixtures =>
                   /\ ~DistinctRegions(teams)
                   /\ Len(free) = 15
                   /\ result[2] < 15
            /\ teams = <<GEN, DK, G2, FNC, BLG, FLY>> => result[2] = 10
            /\ teams = <<GEN, HLE, DK, FNC, BLG, FLY>> => result[2] = 6

C18_Witness ==
    /\ pc = "done"
    /\ rules = <<DiffRegion>>
    /\ teams = <<GEN, DK, G2, FNC, BLG, FLY>>
    /\ ~DistinctRegions(teams)
    /\ result[2] = 10
    /\ Len(generate_brackets(teams, <<>>)) = 15

C18_WitnessSix ==
    /\ pc = "done"
    /\ rules = <<DiffRegion>>
    /\ teams = <<GEN, HLE, DK, FNC, BLG, FLY>>
    /\ ~DistinctRegions(teams)
    /\ result[2] = 6
    /\ Len(generate_brackets(teams, <<>>)) = 15

\* a pool whose regions are pairwise distinct: the rule removes nothing
C18_WitnessNoOp ==
    /\ pc = "done"
    /\ rules = <<DiffRegion>>
    /\ Len(teams) = 2
    /\ DistinctRegions(teams)
    /\ result[2] = 1

\* no candidate partner of the first entrant passes the rules
FirstStepBlocked(ts, rls) ==
    \A i \in 2..Len(ts) : ~Accepts(rls, ts[1], ts[i])

\* C19: for a pool of at least two entrants whose first entrant has no
\* valid partner, generate_brackets yields nothing and brute_force finishes
\* with the pair (0, 0).
C19_Blocked ==
    (Len(teams) >= 2 /\ FirstStepBlocked(teams, rules)) =>
        /\ brackets = <<>>
        /\ generate_brackets(teams, rules) = <<>>
        /\ total = 0
        /\ satisfies = 0
        /\ pc = "done" => result = <<0, 0>>

C19_Witness ==
    /\ pc = "done"
    /\ teams = <<T1, GEN, HLE, DK>>
    /\ rules = <<DiffRegion>>
    /\ FirstStepBlocked(teams, rules)
    /\ result = <<0, 0>>

C19_WitnessTwo ==
    /\ pc = "done"
    /\ Len(teams) = 2
    /\ rules = <<invalid_matchup(T1, G2)>>
    /\ FirstStepBlocked(teams, rules)
    /\ result = <<0, 0>>

Odd(n) == n % 2 = 1

\* C20 as stated: without rules an odd pool of n = 1, 3, 5, 7 entrants has
\* n!! brackets (1, 3, 15, 105).
C20_Original ==
    (pc = "done" /\ rules = <<>> /\ Odd(Len(teams)) /\ Len(teams) <= 7) =>
        /\ result[2] = DoubleFactorial(Len(teams))
        /\ Len(teams) = 3 => result[2] = 3
        /\ Len(teams) = 5 => result[2] = 15
        /\ Len(teams) = 7 => result[2] = 105

\* C20: without rules an odd pool of n entrants has (n-1)(n-3)...2 brackets
\* (1, 2, 8, 48 for n = 1, 3, 5, 7), which is n!! only for n = 1 and less
\* than n!! from n = 3 on; prod_odd_to(n) is then (n-2)!! and is not the
\* count either.
C20_OddCount ==
    (pc = "done" /\ rules = <<>> /\ Odd(Len(teams))) =>
        LET n == Len(teams)
        IN  /\ result[2] = DoubleFactorial(n - 1)
            /\ Len(brackets) = result[2]
            /\ n = 1 => result[2] = 1 /\ result[2] = DoubleFactorial(n)
            /\ n = 3 => result[2] = 2
            /\ n = 5 => result[2] = 8
            /\ n = 7 => result[2] = 48
            /\ n >= 3 => /\ result[2] < DoubleFactorial(n)
                         /\ prod_odd_to(n) = DoubleFactorial(n - 2)
                         /\ prod_odd_to(n) < result[2]

C20_Witness ==
    /\ pc = "done"
    /\ rules = <<>>
    /\ Len(teams) = 7
    /\ result[2] = 48
    /\ DoubleFactorial(7) = 105

C20_WitnessThree ==
    /\ pc = "done"
    /\ rules = <<>>
    /\ Len(teams) = 3
    /\ result[2] = 2
    /\ DoubleFactorial(3) = 3

\* the enumeration does not depend on the events and the combinator: one
\* query for each pool and rule list, and the queries of test_brute_force
OnePerEnumeration ==
    \/ events = <<>> /\ ~use_any
    \/ teams = FixtureTeams /\ rules # <<>>

\* the bracket that pairs consecutive entrants: (e0, e1), (e2, e3), ...,
\* with the bye as partner of a last entrant left alone
Consecutive(ts) ==
    [k \in 1..((Len(ts) + 1) \div 2) |->
        <<ts[2 * k - 1], IF 2 * k <= Len(ts) THEN ts[2 * k] ELSE NoTeam>>]

\* how many of the steps of the machine can be taken in the current state
EnabledSteps ==
    (IF ENABLED Start THEN 1 ELSE 0) + (IF ENABLED Advance THEN 1 ELSE 0)
        + (IF ENABLED Yield THEN 1 ELSE 0) + (IF ENABLED Return THEN 1 ELSE 0)
        + (IF ENABLED Body THEN 1 ELSE 0)

\* C21: a run has one possible next step in every state before the return
\* and none after it; the k-th bracket it yields is the k-th bracket of a
\* fresh enumeration of the same pool and rules, the first bracket under no
\* rules pairs consecutive entrants, and the returned pair is the one a
\* second run of brute_force on the same query returns.
C21_Deterministic ==
    /\ EnabledSteps = IF pc = "done" THEN 0 ELSE 1
    /\ (pc = "body" /\ OnePerEnumeration) =>
          LET again == generate_brackets(teams, rules)
          IN  /\ Len(brackets) < Len(again)
              /\ bracket = again[Len(brackets) + 1]
              /\ brackets = SubSeq(again, 1, Len(brackets))
    /\ (pc = "body" /\ rules = <<>> /\ brackets = <<>>) =>
          bracket = Consecutive(teams)
    /\ pc = "done" => result = brute_force(teams, events, rules, use_any)

C21_Witness ==
    /\ pc = "body"
    /\ rules = <<>>
    /\ events = <<>>
    /\ ~use_any
    /\ Len(teams) = 6
    /\ brackets = <<>>
    /\ bracket = << <<teams[1], teams[2]>>, <<teams[3], teams[4]>>, <<teams[5], teams[6]>> >>

C21_WitnessDone ==
    /\ pc = "done"
    /\ Len(teams) = 6
    /\ rules = <<DiffRegion>>
    /\ Len(brackets) = 10
    /\ brackets = generate_brackets(teams, rules)
    /\ result = brute_force(teams, events, rules, use_any)

\* the frames of generate_brackets below the outermost call
Depth == IF stack = <<>> THEN 0 ELSE Len(stack) - 1

\* C22: every recursive call of generate_brackets has a pool two entrants
\* shorter than its caller's, frames with a pool of 0, 1 or 2 entrants make
\* no call, the nesting of recursive calls is at most floor(n/2), the
\* brackets yielded never exceed (n-1)(n-3)..., and every run reaches the
\* return of brute_force.
C22_Terminates ==
    /\ [](/\ \A d \in 2..Len(stack) :
                /\ Len(stack[d].teams) = Len(stack[d - 1].teams) - 2
                /\ Len(stack[d - 1].teams) >= 3
          /\ Depth <= Len(teams) \div 2
          /\ Len(stack) <= IF Len(teams) = 0 THEN 1 ELSE (Len(teams) + 1) \div 2
          /\ Len(brackets) <= IF Len(teams) = 0 THEN 0 ELSE DoubleFactorial(Len(teams) - 1)
          /\ \A d \in DOMAIN stack : stack[d].i <= Len(stack[d].teams))
    /\ <>(pc = "done")

C22_Witness ==
    /\ pc = "gen"
    /\ Len(teams) = 7
    /\ Len(stack) = 4
    /\ Depth = 3
    /\ Len(Top.teams) = 1
    /\ Len(brackets) = 47

\* the candidates a complete enumeration of the pool examines
RECURSIVE FullCost(_, _)
FullCost(ts, rls) ==
    CASE Len(ts) <= 1 -> 0
      [] Len(ts) = 2 -> 1
      [] OTHER ->
            LET other == Tail(ts)
                Sum[i \in 0..Len(other)] ==
                    IF i = 0 THEN 0
                    ELSE Sum[i - 1] + 1
                           + IF Accepts(rls, ts[1], other[i])
                             THEN FullCost(Remaining(other, i), rls)
                             ELSE 0
            IN  Sum[Len(other)]

\* the candidates an enumeration examines up to its k-th yield, k >= 1 and
\* at most the number of brackets of the pool; LazyFrom is the part of it
\* spent from the i-th candidate of the pivot on
RECURSIVE LazyCost(_, _, _)
RECURSIVE LazyFrom(_, _, _, _)
LazyFrom(ts, rls, k, i) ==
    LET other == Tail(ts)
        rest == Remaining(other, i)
        cnt == IF Accepts(rls, ts[1], other[i])
               THEN Len(generate_brackets(rest, rls))
               ELSE 0
    IN  IF i > Len(other) THEN 0
        ELSE 1 + (IF ~Accepts(rls, ts[1], other[i])
                    THEN LazyFrom(ts, rls, k, i + 1)
                  ELSE IF k <= cnt
                    THEN LazyCost(rest, rls, k)
                  ELSE FullCost(rest, rls) + LazyFrom(ts, rls, k - cnt, i + 1))

LazyCost(ts, rls, k) ==
    CASE Len(ts) <= 1 -> 0
      [] Len(ts) = 2 -> 1
      [] OTHER -> LazyFrom(ts, rls, k, 1)

\* C23: when the consumer holds the k-th bracket, the brackets it has taken
\* are the first k of the full enumeration, every suspended frame stands at
\* the candidate the bracket uses, and the candidates examined so far are
\* those an enumeration needs up to its k-th yield: no candidate after the
\* ones in use has been examined at any level.
C23_Lazy ==
    /\ (pc = "body" /\ OnePerEnumeration) =>
          LET k == Len(brackets) + 1
          IN  /\ Append(brackets, bracket) = SubSeq(generate_brackets(teams, rules), 1, k)
              /\ Len(stack) = Len(bracket)
              /\ \A d \in 1..(Len(stack) - 1) :
                    /\ stack[d].i \in 1..Len(Tail(stack[d].teams))
                    /\ bracket[d] = <<stack[d].teams[1], Tail(stack[d].teams)[stack[d].i]>>
              /\ examined = LazyCost(teams, rules, k)
              /\ examined <= FullCost(teams, rules)
    /\ (pc = "done" /\ OnePerEnumeration) => examined = FullCost(teams, rules)

C23_Witness ==
    /\ pc = "body"
    /\ Len(teams) = 8
    /\ rules = <<>>
    /\ events = <<>>
    /\ ~use_any
    /\ brackets = <<>>
    /\ examined = 4
    /\ FullCost(teams, rules) = 252

C23_WitnessRuled ==
    /\ pc = "body"
    /\ teams = <<GEN, DK, G2, FNC, BLG, FLY>>
    /\ rules = <<DiffRegion>>
    /\ events = <<>>
    /\ Len(brackets) = 4
    /\ examined < FullCost(teams, rules)
    /\ stack[1].i = 3

\* the sequence ts without the positions of drop, in the order of ts
Without(ts, drop) ==
    LET keep == SelectSeq([k \in 1..Len(ts) |-> k], LAMBDA k : k \notin drop)
    IN  [j \in 1..Len(keep) |-> ts[keep[j]]]

\* C24: no step changes the entrant list, the rule list or the event list
\* of the query or the pool of a frame that stays on the stack; the
\* outermost frame holds the caller's list, and the pool of every nested
\* frame is its caller's pool without the pivot and the partner the caller
\* stands at, in the original order, whatever earlier branches removed.
C24_Frame ==
    /\ [](/\ stack # <<>> => stack[1].teams = teams
          /\ \A d \in 2..Len(stack) :
                stack[d].teams = Without(stack[d - 1].teams, {1, stack[d - 1].i + 1}))
    /\ [][/\ teams' = teams
          /\ rules' = rules
          /\ events' = events
          /\ use_any' = use_any
          /\ \A d \in DOMAIN stack \cap DOMAIN stack' :
                stack'[d].teams = stack[d].teams]_vars

C24_Witness ==
    /\ pc = "gen"
    /\ Len(teams) = 6
    /\ Len(stack) = 3
    /\ stack[1].i = 2
    /\ stack[2].teams = <<teams[2], teams[4], teams[5], teams[6]>>
    /\ stack[2].i = 3
    /\ stack[3].teams = <<teams[4], teams[5]>>
    /\ Len(brackets) = 5

\* C25 as stated: a pairing of two entrants appears in a yielded bracket
\* only when every rule holds for it in both argument orders.
C25_BothOrders ==
    pc = "body" =>
        \A k \in DOMAIN bracket :
            bracket[k][2] # NoTeam =>
                /\ Accepts(rules, bracket[k][1], bracket[k][2])
                /\ Accepts(rules, bracket[k][2], bracket[k][1])

\* a yielded pairing whose rule has only been called as rule(pivot, partner)
\* and fails in the other order
C25_OneOrder ==
    /\ pc = "body"
    /\ teams = <<G2, T1>>
    /\ rules = <<OneWay(T1, G2)>>
    /\ bracket = << <<G2, T1>> >>
    /\ Accepts(rules, G2, T1)
    /\ ~Accepts(rules, T1, G2)

\* C26: a pool of one entrant e yields exactly one bracket, [(e, Team())],
\* under every rule list, and no rule is evaluated for it.
C26_Single ==
    (Len(teams) = 1) =>
        /\ generate_brackets(teams, rules) = << << <<teams[1], NoTeam>> >> >>
        /\ examined = 0
        /\ pc = "body" => bracket = << <<teams[1], NoTeam>> >> /\ brackets = <<>>
        /\ pc = "done" =>
              /\ brackets = << << <<teams[1], NoTeam>> >> >>
              /\ result[2] = 1

C26_Witness ==
    /\ pc = "done"
    /\ Len(teams) = 1
    /\ rules = <<RejectAll>>
    /\ brackets = << << <<teams[1], NoTeam>> >> >>
    /\ result[2] = 1
    /\ examined = 0

\* the event with its members swapped
Swap(e) == <<e[2], e[1]>>

\* the event list with the members of its j-th event swapped
SwapAt(evs, j) == [evs EXCEPT ![j] = Swap(evs[j])]

\* C27: bracket_has_event gives the same answer for (a, b) and (b, a), and
\* it is true exactly when a pairing of the bracket has a and b as its two
\* members in either order; brute_force returns the same pair when the
\* members of any event, or of all events, are swapped.
C27_Unordered ==
    /\ (pc = "body" /\ OnePerEnumeration) =>
          \A a, b \in TeamSet(teams) \cup {NoTeam} :
              /\ bracket_has_event(bracket, <<a, b>>) = bracket_has_event(bracket, <<b, a>>)
              /\ bracket_has_event(bracket, <<a, b>>)
                    <=> \E k \in DOMAIN bracket :
                            \/ bracket[k][1] = a /\ bracket[k][2] = b
                            \/ bracket[k][1] = b /\ bracket[k][2] = a
    /\ pc = "done" =>
          LET bs == generate_brackets(teams, rules)
          IN  /\ \A j \in DOMAIN events :
                    Tally(bs, SwapAt(events, j), use_any) = result
              /\ Tally(bs, [j \in DOMAIN events |-> Swap(events[j])], use_any) = result

C27_Witness ==
    /\ pc = "done"
    /\ teams = Prefix(6)
    /\ rules = <<>>
    /\ events = << <<G2, T1>> >>
    /\ result = <<3, 15>>
    /\ brute_force(teams, << <<T1, G2>> >>, rules, use_any) = <<3, 15>>

C27_WitnessBody ==
    /\ pc = "body"
    /\ events = <<>>
    /\ ~use_any
    /\ InBracket(<<T1, G2>>, bracket)
    /\ ~InBracket(<<G2, T1>>, bracket)
    /\ bracket_has_event(bracket, <<G2, T1>>)

\* ts with positions i and j exchanged
Exchange(ts, i, j) == [ts EXCEPT ![i] = ts[j], ![j] = ts[i]]

\* reorderings of a pool: every one of them for the short pools of the
\* exhaustive family; for longer pools the reversal, the rotations and the
\* exchanges of two positions
Reorderings(ts) ==
    IF Len(ts) <= MaxTeams
    THEN {p \in [1..Len(ts) -> TeamSet(ts)] : \A i, j \in 1..Len(ts) : i # j => p[i] # p[j]}
    ELSE {[k \in 1..Len(ts) |-> ts[Len(ts) + 1 - k]]}
            \cup {[k \in 1..Len(ts) |-> ts[((k + r - 1) % Len(ts)) + 1]] : r \in 1..Len(ts)}
            \cup {Exchange(ts, i, j) : i, j \in 1..Len(ts)}

\* C28: for an even pool of pairwise-distinct entrants under symmetric
\* rules, brute_force returns the same pair for every reordering of the
\* pool, and the brackets of the reordered pool are the same matchings.
C28_Permutation ==
    (pc = "done" /\ Even(Len(teams)) /\ Distinct(teams) /\ Symmetric(rules, teams)) =>
        \A p \in Reorderings(teams) :
            LET again == generate_brackets(p, rules)
            IN  /\ Tally(again, events, use_any) = result
                /\ {AsMatching(again[k]) : k \in DOMAIN again}
                      = {AsMatching(brackets[k]) : k \in DOMAIN brackets}
                /\ (p # teams /\ Len(teams) >= 4 /\ rules = <<>>) => again # brackets

C28_Witness ==
    /\ pc = "done"
    /\ teams = <<GEN, DK, G2, FNC, BLG, FLY>>
    /\ rules = <<DiffRegion>>
    /\ result = <<10, 10>>
    /\ brute_force(<<FLY, BLG, FNC, G2, DK, GEN>>, events, rules, use_any) = <<10, 10>>
    /\ generate_brackets(<<FLY, BLG, FNC, G2, DK, GEN>>, rules) # brackets

C28_WitnessEvents ==
    /\ pc = "done"
    /\ Len(teams) = 4
    /\ events # <<>>
    /\ rules # <<>>
    /\ Symmetric(rules, teams)
    /\ result[1] > 0
    /\ result[2] > result[1]

\* C29: in every bracket of an odd pool the pairing with the bye Team() is
\* the last one and has the bye as second member, no other pairing holds
\* the bye, from 3 entrants on the first entrant is never the one with the
\* bye, and without rules there are (n-1)(n-3)...2 brackets.
C29_Bye ==
    /\ (pc = "body" /\ Odd(Len(teams))) =>
          LET last == bracket[Len(bracket)]
          IN  /\ Len(bracket) = (Len(teams) + 1) \div 2
              /\ last[2] = NoTeam
              /\ last[1] \in TeamSet(teams)
              /\ \A k \in 1..(Len(bracket) - 1) :
                    bracket[k][1] # NoTeam /\ bracket[k][2] # NoTeam
              /\ Len(teams) >= 3 =>
                    /\ last[1] # teams[1]
                    /\ bracket[1][1] = teams[1]
    /\ (pc = "done" /\ Odd(Len(teams)) /\ rules = <<>>) =>
          /\ Len(brackets) = DoubleFactorial(Len(teams) - 1)
          /\ Len(teams) >= 3 => \A k \in DOMAIN brackets : <<teams[1], NoTeam>> # brackets[k][Len(brackets[k])]
          /\ Len(teams) = 3 => Len(brackets) = 2
          /\ Len(teams) = 5 => Len(brackets) = 8
          /\ Len(teams) = 7 => Len(brackets) = 48

C29_Witness ==
    /\ pc = "body"
    /\ Len(teams) = 5
    /\ Len(bracket) = 3
    /\ bracket[1][1] = teams[1]
    /\ bracket[2][1] = teams[2]
    /\ bracket[3] = <<teams[4], NoTeam>>

C29_WitnessSeven ==
    /\ pc = "done"
    /\ Len(teams) = 7
    /\ rules = <<>>
    /\ Len(brackets) = 48
    /\ brackets[48][4][2] = NoTeam

\* C30: for a non-empty event list the count under func=all is at most the
\* count under func=any, and equal to it for a single event; for the empty
\* list func=any counts nothing and func=all counts every bracket; the
\* total is the same under both.
C30_Combinators ==
    pc = "done" =>
        LET bs == generate_brackets(teams, rules)
            with_all == Tally(bs, events, FALSE)
            with_any == Tally(bs, events, TRUE)
        IN  /\ result = IF use_any THEN with_any ELSE with_all
            /\ with_all[2] = with_any[2]
            /\ events # <<>> => with_all[1] <= with_any[1]
            /\ Len(events) = 1 => with_all[1] = with_any[1]
            /\ events = <<>> => with_any[1] = 0 /\ with_all[1] = with_all[2]

C30_Witness ==
    /\ pc = "done"
    /\ use_any
    /\ Len(teams) = 8
    /\ Len(events) = 2
    /\ Tally(brackets, events, FALSE)[1] > 0
    /\ result[1] > Tally(brackets, events, FALSE)[1]

C30_WitnessEmpty ==
    /\ pc = "done"
    /\ use_any
    /\ events = <<>>
    /\ Len(teams) = 6
    /\ result = <<0, 15>>
    /\ brute_force(teams, events, rules, FALSE) = <<15, 15>>

====
